---- MODULE Spec2Model ----
(***************************************************************************)
(* Input-state engine of the cyberdeck firmware: the key button, the three *)
(* switches and the rotary encoders, as polled by socket_server.py and by  *)
(* inputs_debug.py.                                                        *)
(*                                                                         *)
(* Time is counted in milliseconds.  The code uses last_encoder_time and   *)
(* last_button_time only in the differences                                *)
(*     current_time - self.last_encoder_time                               *)
(*     current_time - self.last_button_time                                *)
(* so an encoder stores these two differences (since_encoder,              *)
(* since_button) as of the current_time of its latest update, saturated    *)
(* one millisecond above the window they are compared with.  time.time()   *)
(* is seconds since the epoch and both fields start at 0, so both          *)
(* differences start saturated.                                            *)
(***************************************************************************)
EXTENDS Integers, Sequences, FiniteSets, TLC

VARIABLES
    variant,     \* which program runs: "socket_server" or "inputs_debug"
    encoders,    \* FirmwareManager.encoders: the encoders that were set up
    last_state,  \* ButtonMonitor.last_state
    last_states, \* SwitchMonitor.last_states[gpio_num]['status']
    pc,          \* the statement of monitor_loop the poll thread is at
    idx,         \* position of "for encoder in self.encoders"
    tick_dt,     \* current_time of this iteration minus that of the previous
    events,      \* socketio.emit calls of the current poll iteration, in order
    call,        \* what the latest RotaryEncoder.update read and decided
    lines,       \* the outcome of the latest read of every input line
    unchanged,   \* every read of this iteration gave what the read before gave
    since_emit,  \* time since the latest key_change / switch_change per input
    driven,      \* the input whose lines the environment drives in this run
    feed,        \* the quadrature sequence fed to the encoder, if any
    server,      \* the SimulatorServer instance of mac_simulator.py
    process      \* the process around the poll loop: signal, handler, exit

vars == <<variant, encoders, last_state, last_states, pc, idx, tick_dt, events,
          call, lines, unchanged, since_emit, driven, feed, server,
          process>>

\* Python's None: no pin, no level, no value
None == -1

\* ------------------------------------------------------------ bounds
\* |counter| explored by the model
MaxCounter == 3

\* the time since the last accepted press is followed exactly up to MaxFine
\* ms and from the button window upwards
MaxFine == 4

\* poll iterations followed after SIGINT was delivered
MaxAfter == 2

\* subscriber connections followed
MaxClients == 2

\* ------------------------------------------------------------ constants
encoder_debounce_delay == 1
button_debounce_delay == 200

\* spacing of two consecutive current_time values, in ms
TimeSteps ==
    {encoder_debounce_delay, encoder_debounce_delay + 1,
     button_debounce_delay - 1, button_debounce_delay, button_debounce_delay + 1}

\* (encoder_id, pin_a, pin_b, pin_button)
encoder_configs ==
    << [encoder_id |-> 3, pin_a |-> 4,  pin_b |-> 17, pin_button |-> 19],
       [encoder_id |-> 2, pin_a |-> 27, pin_b |-> 22, pin_button |-> 13],
       [encoder_id |-> 1, pin_a |-> 5,  pin_b |-> 6,  pin_button |-> 26],
       [encoder_id |-> 4, pin_a |-> 23, pin_b |-> 24, pin_button |-> None] >>

debug_encoder_configs ==
    << [encoder_id |-> 1, pin_a |-> 4,  pin_b |-> 17, pin_button |-> 19],
       [encoder_id |-> 2, pin_a |-> 27, pin_b |-> 22, pin_button |-> 13],
       [encoder_id |-> 3, pin_a |-> 5,  pin_b |-> 6,  pin_button |-> 26],
       [encoder_id |-> 4, pin_a |-> 23, pin_b |-> 24, pin_button |-> None] >>

\* "Range: 0-100", printed by setup_encoders of inputs_debug.py
range_end == 100

\* ------------------------------------------------------------ helpers
Sat(x, cap) == IF x > cap THEN cap ELSE x

\* current_time - self.last_encoder_time, dt after the previous update
EncoderElapsed(self, dt) == Sat(self.since_encoder + dt, encoder_debounce_delay + 1)

\* current_time - self.last_button_time, dt after the previous update
ButtonElapsed(self, dt) == Sat(self.since_button + dt, button_debounce_delay + 1)

\* the passage of dt with no assignment to either time field
Elapse(self, dt) ==
    [self EXCEPT !.since_encoder = EncoderElapsed(self, dt),
                 !.since_button = ButtonElapsed(self, dt)]

\* the spacings dt the model follows from the state of one encoder
Followed(self, dt) ==
    \/ self.since_button + dt <= MaxFine
    \/ self.since_button + dt >= button_debounce_delay

\* RotaryEncoder.__init__ followed by a successful setup_gpio that read
\* the levels a, b (and button, when the encoder has one)
NewEncoder(config, a, b, button) ==
    [encoder_id |-> config.encoder_id,
     pin_button |-> config.pin_button,
     counter |-> 0,
     last_counter |-> 0,
     last_a |-> a,
     last_b |-> b,
     last_button |-> IF config.pin_button # None THEN button ELSE 1,
     since_encoder |-> encoder_debounce_delay + 1,
     since_button |-> button_debounce_delay + 1]

\* the three GPIO.input calls of update; fail names the first that raised
Reads ==
    [a : {0, 1}, b : {0, 1}, button : {0, 1}, fail : {"none"}]
    \cup [a : {None}, b : {None}, button : {None}, fail : {"a", "b", "button"}]

ReadsOf(self) ==
    {rd \in Reads :
        /\ (rd.fail = "button" => self.pin_button # None)
        /\ (rd.fail = "none" /\ self.pin_button = None => rd.button = 1)}

\* ------------------------------------------------------------ decoder
\* the two directions exchanged
QuadratureStepReversed(current_a, current_b) ==
    IF current_a = 1
    THEN (IF current_b = 0 THEN -1 ELSE 1)
    ELSE (IF current_b = 1 THEN -1 ELSE 1)

\* quadrature decoding of an accepted A edge
QuadratureStep(current_a, current_b) ==
    IF current_a = 1
    THEN (IF current_b = 0 THEN 1 ELSE -1)
    ELSE (IF current_b = 1 THEN 1 ELSE -1)

\* the A edge compared with the button window
EdgeAcceptedButtonDelay(self, dt) == EncoderElapsed(self, dt) > button_debounce_delay

\* ">=" for ">" in the encoder debounce test
EdgeAcceptedAtWindow(self, dt) == EncoderElapsed(self, dt) >= encoder_debounce_delay

\* is the A edge let through by the encoder debounce window
EdgeAccepted(self, dt) == EncoderElapsed(self, dt) > encoder_debounce_delay

\* ">=" for ">" in the button debounce test
PressAcceptedAtWindow(self, dt) == ButtonElapsed(self, dt) >= button_debounce_delay

\* is the press edge let through by the button debounce window
PressAccepted(self, dt) == ButtonElapsed(self, dt) > button_debounce_delay

\* inputs_debug.py: "Prevent counter from going negative"
ClampDebug(counter) == IF counter < 0 THEN 0 ELSE counter

\* socket_server.py has no such statement after the step
ClampSocket(counter) == counter

\* the payload carries the change of the counter
EncoderChangeDelta(self, counter) ==
    [name |-> "encoder_change",
     encoder_id |-> self.encoder_id,
     value |-> counter - self.last_counter,
     direction |-> IF counter - self.last_counter > 0 THEN "right" ELSE "left"]

EncoderChange(self, counter) ==
    [name |-> "encoder_change",
     encoder_id |-> self.encoder_id,
     value |-> counter,
     direction |-> IF counter - self.last_counter > 0 THEN "right" ELSE "left"]

EncoderButtonPress(self) ==
    [name |-> "encoder_button_press", encoder_id |-> self.encoder_id]

\* the press is emitted only when the counter did not change
UpdateEventsElse(self, counter, button_pressed) ==
    IF counter # self.last_counter THEN <<EncoderChange(self, counter)>>
    ELSE IF button_pressed THEN <<EncoderButtonPress(self)>>
    ELSE <<>>

\* "Emit if counter changed", then "Emit if button was pressed"
UpdateEvents(self, counter, button_pressed) ==
    (IF counter # self.last_counter THEN <<EncoderChange(self, counter)>> ELSE <<>>)
    \o (IF button_pressed THEN <<EncoderButtonPress(self)>> ELSE <<>>)

\* the B level is stored before the button read raises
OnReadErrorAfterB(self, dt) ==
    [self |-> [Elapse(self, dt) EXCEPT !.last_b = 1 - @], events |-> <<>>,
     step |-> 0, edge |-> FALSE, press_edge |-> FALSE, button_pressed |-> FALSE,
     stepped |-> self.counter]

\* "except Exception as e: print(...)": a GPIO.input of update raised.  The
\* three reads come before every assignment, so no field was written.
OnReadError(self, dt) ==
    [self |-> Elapse(self, dt), events |-> <<>>,
     step |-> 0, edge |-> FALSE, press_edge |-> FALSE, button_pressed |-> FALSE,
     stepped |-> self.counter]

\* a step on every change of B as well
RotationStepOnB(self, accepted, current_a, current_b) ==
    IF accepted \/ current_b # self.last_b
    THEN QuadratureStep(current_a, current_b) ELSE 0

\* "if current_a != self.last_a: if <window passed>: <step>": the step of
\* the rotation, taken on accepted A edges only
RotationStep(self, accepted, current_a, current_b) ==
    IF accepted THEN QuadratureStep(current_a, current_b) ELSE 0

\* last_a stored with the step, under the test of the window
TrackedAOnAccepted(self, edge, accepted, current_a) ==
    IF accepted THEN current_a ELSE self.last_a

\* "Always update last A state to track changes": the assignment stands
\* under "if current_a != self.last_a", outside the test of the window
TrackedA(self, edge, accepted, current_a) ==
    IF edge THEN current_a ELSE self.last_a

\* last_button left alone by a press the window suppressed
TrackedButtonOnAccepted(self, button_pressed, current_button) ==
    IF current_button = 0 /\ self.last_button = 1 /\ ~button_pressed
    THEN self.last_button ELSE current_button

\* "self.last_button = current_button", outside both tests of the press
TrackedButton(self, button_pressed, current_button) == current_button

\* the read of the button stands after the "try" block
UpdateCatchesRotation(fail) == fail \in {"a", "b"}

\* the "try" of update holds the three reads: the exception of any of
\* them is taken by "except Exception" and does not leave update
UpdateCatches(fail) == fail \in {"a", "b", "button"}

\* RotaryEncoder.update(current_time), current_time being dt after the
\* previous call; prog is the program the encoder belongs to
Update(prog, self, dt, rd) ==
    IF rd.fail # "none"
    THEN OnReadError(self, dt)
    ELSE
    LET current_a == rd.a
        current_b == rd.b
        current_button == IF self.pin_button # None THEN rd.button ELSE 1
        edge == current_a # self.last_a
        accepted == edge /\ EdgeAccepted(self, dt)
        step == RotationStep(self, accepted, current_a, current_b)
        stepped == IF ~accepted THEN self.counter
                   ELSE IF prog = "inputs_debug" THEN ClampDebug(self.counter + step)
                   ELSE ClampSocket(self.counter + step)
        press_edge == self.pin_button # None /\ current_button = 0 /\ self.last_button = 1
        button_pressed == press_edge /\ PressAccepted(self, dt)
        counter == IF button_pressed THEN 0 ELSE stepped
        emitted == IF prog = "socket_server"
                   THEN UpdateEvents(self, counter, button_pressed)
                   ELSE <<>>
    IN  [self |->
            [self EXCEPT
                !.counter = counter,
                !.last_counter = IF prog = "socket_server" THEN counter ELSE @,
                !.last_a = TrackedA(self, edge, accepted, current_a),
                !.last_b = current_b,
                !.last_button = IF self.pin_button # None
                                THEN TrackedButton(self, button_pressed, current_button)
                                ELSE @,
                !.since_encoder = IF accepted THEN 0 ELSE EncoderElapsed(self, dt),
                !.since_button = IF button_pressed THEN 0 ELSE ButtonElapsed(self, dt)],
         events |-> emitted,
         step |-> step, edge |-> edge, press_edge |-> press_edge,
         button_pressed |-> button_pressed,
         stepped |-> stepped]

\* ------------------------------------------------------------ one encoder
NoCall ==
    [index |-> 0, dt |-> 0,
     a |-> None, b |-> None, button |-> None, fail |-> "none",
     step |-> 0, edge |-> FALSE, press_edge |-> FALSE, button_pressed |-> FALSE,
     counter_before |-> 0, b_before |-> None, updated |-> FALSE]

CallOf(i, self, dt, rd, r) ==
    [index |-> i, dt |-> dt,
     a |-> rd.a, b |-> rd.b, button |-> rd.button, fail |-> rd.fail,
     step |-> r.step, edge |-> r.edge, press_edge |-> r.press_edge,
     button_pressed |-> r.button_pressed,
     counter_before |-> self.counter, b_before |-> self.last_b, updated |-> TRUE]

ConfigsOf(prog) ==
    IF prog = "socket_server" THEN encoder_configs ELSE debug_encoder_configs

\* the dict walked from its last pin to its first
SwitchPinsReversed == <<21, 20, 18>>

\* SwitchMonitor.pins, in the order of the dict, and SwitchMonitor.colors
SwitchPins == <<18, 20, 21>>
colors == [gpio_num \in {18, 20, 21} |->
             IF gpio_num = 18 THEN "green" ELSE IF gpio_num = 20 THEN "blue" ELSE "red"]
SimpleInputs == {"key", "green", "blue", "red"}

IdleLines ==
    [key |-> 1,
     sw |-> [gpio_num \in {18, 20, 21} |-> "1"],
     enc |-> [i \in 1..4 |-> [a |-> 1, b |-> 1, button |-> 1, fail |-> "none"]]]

NoFeed == [dir |-> "none", phase |-> 0]

\* SimulatorServer.__init__: no client, key and switches released (True),
\* the four counters 0; emitted holds the socketio.emit calls of the
\* latest operation, sent the latest initial_state payload (<<>>: none).
\* threads holds, for every client, where the thread serving it stands:
\* "out" (not connected yet), "connect" (handle_connect has loaded
\* connected_clients), "in" (connected), "disconnect" (handle_disconnect
\* has loaded connected_clients), "gone" (disconnected), and the value it
\* loaded.
NoServer ==
    [connected_clients |-> 0,
     key_active |-> 1,
     switches |-> [color \in {"green", "blue", "red"} |-> 1],
     encoders |-> [encoder_id \in 1..4 |-> 0],
     emitted |-> <<>>,
     sent |-> <<>>,
     threads |-> [sid \in 1..MaxClients |-> [at |-> "out", loaded |-> 0]]]

\* a process past its startup, polling, no SIGINT delivered so far
Running ==
    [alive |-> TRUE,             \* the process has not exited
     sigint |-> FALSE,           \* SIGINT was delivered
     handler |-> "idle",         \* the statement signal_handler is at
     after_sigint |-> 0,         \* poll iterations begun since SIGINT
     cleanups |-> 0,             \* calls of GPIO.cleanup() since startup
     exit_status |-> None,
     last_display_state |-> <<>>, \* inputs_debug.py, None as <<>>
     startup |-> "done",         \* the statement the startup is at
     attempts |-> 1,             \* GPIO.setmode calls of setup_gpio
     first |-> "ok",             \* how the first attempt of setup_gpio ended
     retry |-> "none",           \* how its retry ended
     configured |-> SimpleInputs, \* key and switch lines that were set up
     connections |-> 0,          \* calls of handle_connect
     disconnections |-> 0,       \* calls of handle_disconnect
     sent |-> <<>>]              \* the initial_state payloads emitted

\* the part of the state a run of one encoder alone does not use
NoPollLoop ==
    /\ last_state = None
    /\ last_states = [gpio_num \in {18, 20, 21} |-> 1]
    /\ pc = "none"
    /\ idx = 0
    /\ tick_dt = 0
    /\ lines = IdleLines
    /\ unchanged = TRUE
    /\ since_emit = [x \in SimpleInputs |-> button_debounce_delay + 1]
    /\ driven = "enc1"
    /\ process = Running

PollLoopUnchanged ==
    UNCHANGED <<last_state, last_states, pc, idx, tick_dt, lines, unchanged,
                since_emit, driven, process>>

\* one encoder of either program, set up on any line levels
InitEncoder ==
    /\ variant \in {"socket_server", "inputs_debug"}
    /\ \E i \in 1..4, a \in {0, 1}, b \in {0, 1}, button \in {0, 1} :
          encoders = <<NewEncoder(ConfigsOf(variant)[i], a, b, button)>>
    /\ events = <<>>
    /\ call = NoCall
    /\ feed = NoFeed
    /\ server = NoServer
    /\ NoPollLoop

\* update called with any timestamp spacing and any line levels
UpdateEncoder ==
    /\ encoders[1].counter \in -MaxCounter..MaxCounter
    /\ \E dt \in TimeSteps, rd \in ReadsOf(encoders[1]) :
          /\ Followed(encoders[1], dt)
          /\ LET r == Update(variant, encoders[1], dt, rd)
             IN  /\ encoders' = <<r.self>>
                 /\ events' = r.events
                 /\ call' = CallOf(1, encoders[1], dt, rd, r)
    /\ UNCHANGED <<variant, feed, server>>
    /\ PollLoopUnchanged

NextEncoder == UpdateEncoder

SpecEncoder == InitEncoder /\ [][NextEncoder]_vars

\* ------------------------------------------------- debug monitor, far
\* one encoder of inputs_debug.py turned and pressed at will, an update
\* every 201 ms, as far as the end of the range setup_encoders prints
InitDebugRange ==
    /\ InitEncoder
    /\ variant = "inputs_debug"

UpdateDebugRange ==
    /\ encoders[1].counter \in 0..range_end
    /\ \E rd \in ReadsOf(encoders[1]) :
          LET dt == button_debounce_delay + 1
              r == Update(variant, encoders[1], dt, rd)
          IN  /\ encoders' = <<r.self>>
              /\ events' = r.events
              /\ call' = CallOf(1, encoders[1], dt, rd, r)
    /\ UNCHANGED <<variant, feed, server>>
    /\ PollLoopUnchanged

NextDebugRange == UpdateDebugRange

SpecDebugRange == InitDebugRange /\ [][NextDebugRange]_vars

\* ------------------------------------------------------------ fed encoder
\* (A, B) = (0,0), (1,0), (1,1), (0,1), and (0,0) again
canonical == << <<0, 0>>, <<1, 0>>, <<1, 1>>, <<0, 1>> >>

NextPhase(f) ==
    IF f.dir = "forward" THEN (f.phase % 4) + 1 ELSE ((f.phase + 2) % 4) + 1

\* an encoder set up while its lines are at some phase of the sequence,
\* its button released
InitFeed ==
    /\ variant \in {"socket_server", "inputs_debug"}
    /\ \E i \in 1..4, p \in 1..4, dir \in {"forward", "reverse"} :
          /\ encoders = <<NewEncoder(ConfigsOf(variant)[i],
                                     canonical[p][1], canonical[p][2], 1)>>
          /\ feed = [dir |-> dir, phase |-> p]
    /\ server = NoServer
    /\ events = <<>>
    /\ call = NoCall
    /\ NoPollLoop

\* the next sample of the sequence, more than the encoder window after
\* the previous one
FeedSample ==
    /\ encoders[1].counter \in -MaxCounter..MaxCounter
    /\ \E dt \in {t \in TimeSteps : t > encoder_debounce_delay} :
          LET p == NextPhase(feed)
              rd == [a |-> canonical[p][1], b |-> canonical[p][2],
                     button |-> 1, fail |-> "none"]
              r == Update(variant, encoders[1], dt, rd)
          IN  /\ encoders' = <<r.self>>
              /\ events' = r.events
              /\ call' = CallOf(1, encoders[1], dt, rd, r)
              /\ feed' = [feed EXCEPT !.phase = p]
    /\ UNCHANGED <<variant, server>>
    /\ PollLoopUnchanged

NextFeed == FeedSample

SpecFeed == InitFeed /\ [][NextFeed]_vars

\* ------------------------------------------------------------ poll loop
\* ButtonMonitor.get_button_status: True when released, False when pressed,
\* None when GPIO.input raised (Python's True and False equal 1 and 0)
get_button_status(level) ==
    IF level = None THEN None ELSE IF level = 1 THEN 1 ELSE 0

KeyChange(active) == [name |-> "key_change", active |-> active]

\* ButtonMonitor.check_and_emit
button_check_and_emit(last, level) ==
    LET current_state == get_button_status(level)
    IN  IF current_state # last
        THEN [last_state |-> current_state, events |-> <<KeyChange(current_state)>>]
        ELSE [last_state |-> last, events |-> <<>>]

\* what SwitchMonitor.read_gpio returns
SwitchValues == {"1", "0", "Error"}

\* the 'status' of get_switch_states for one pin
SwitchStatus(value) ==
    IF value = "1" THEN 1 ELSE IF value = "0" THEN 0 ELSE None

get_switch_states(values) == [gpio_num \in {18, 20, 21} |-> SwitchStatus(values[gpio_num])]

SwitchChange(gpio_num, active) ==
    [name |-> "switch_change", switch |-> colors[gpio_num], active |-> active]

RECURSIVE SwitchEvents(_, _, _)
SwitchEvents(last, current_states, k) ==
    IF k > Len(SwitchPins) THEN <<>>
    ELSE LET gpio_num == SwitchPins[k]
         IN  (IF current_states[gpio_num] # last[gpio_num]
              THEN <<SwitchChange(gpio_num, current_states[gpio_num])>>
              ELSE <<>>)
             \o SwitchEvents(last, current_states, k + 1)

\* SwitchMonitor.check_and_emit
switch_check_and_emit(last, values) ==
    LET current_states == get_switch_states(values)
    IN  [last_states |-> current_states,
         events |-> SwitchEvents(last, current_states, 1)]

EncName == <<"enc1", "enc2", "enc3", "enc4">>

\* In a run with driven = "all" the key, the three switches and the A
\* lines of the first two encoders change together, one iteration every
\* 201 ms, the other lines at rest (B at 1: the counter of a turned
\* encoder goes one step from its value and back).
TurnedEncoders == {1, 2}

\* The inputs share no state, so a run of the poll loop drives one of them
\* (the key, the three switches together, or one encoder) through every
\* level and read failure; the lines of the others rest at the pull-up
\* level they had at construction and are polled all the same.
\* In a run with driven = "knob" the lines of the first encoder change,
\* one iteration every 201 ms, and no read fails.
\* In a run with driven = "faults" every line rests at its pull-up level
\* and any read of any iteration may fail.
\* After GPIO.cleanup() the channels are no longer set up and GPIO.input
\* raises on each of them; the switches are read through sysfs files and
\* are read as before.
GpioCleaned == process.cleanups > 0

KeyLevels ==
    IF GpioCleaned THEN {None}
    ELSE IF driven = "key" THEN {0, 1, None}
    ELSE IF driven = "all" THEN {0, 1}
    ELSE IF driven = "faults" THEN {1, None}
    ELSE {lines.key}
SwitchReads ==
    IF driven = "switches" THEN [{18, 20, 21} -> SwitchValues]
    ELSE IF driven = "all" THEN [{18, 20, 21} -> {"1", "0"}]
    ELSE IF driven = "faults" THEN [{18, 20, 21} -> {"1", "Error"}]
    ELSE {lines.sw}
EncoderReads(i) ==
    IF GpioCleaned THEN {[a |-> None, b |-> None, button |-> None, fail |-> "a"]}
    ELSE IF driven = EncName[i] THEN ReadsOf(encoders[i])
    ELSE IF driven = "all" /\ i \in TurnedEncoders
    THEN {rd \in ReadsOf(encoders[i]) : rd.fail = "none" /\ rd.b = 1 /\ rd.button = 1}
    ELSE IF driven = "knob" /\ i = 1
    THEN {rd \in ReadsOf(encoders[i]) : rd.fail = "none"}
    ELSE IF driven = "faults"
    THEN {rd \in ReadsOf(encoders[i]) : rd.fail = "none" => rd = IdleLines.enc[i]}
    ELSE {lines.enc[i]}

\* the state after FirmwareManager.__init__ of socket_server.py, all four
\* encoders set up
Init ==
    /\ variant = "socket_server"
    /\ driven \in {"key", "switches"} \cup {EncName[i] : i \in 1..4}
    /\ \E key \in {0, 1, None}, sw \in [{18, 20, 21} -> SwitchValues],
          enc \in [1..4 -> [a : {0, 1}, b : {0, 1}, button : {0, 1}, fail : {"none"}]] :
          /\ driven # "key" => key = IdleLines.key
          /\ driven # "switches" => sw = IdleLines.sw
          /\ \A i \in 1..4 :
                /\ driven # EncName[i] => enc[i] = IdleLines.enc[i]
                /\ encoder_configs[i].pin_button = None => enc[i].button = 1
          /\ lines = [key |-> key, sw |-> sw, enc |-> enc]
    /\ last_state = None
    /\ last_states = get_switch_states(lines.sw)
    /\ encoders = [i \in 1..4 |->
                     NewEncoder(encoder_configs[i],
                                lines.enc[i].a, lines.enc[i].b, lines.enc[i].button)]
    /\ pc = "time"
    /\ idx = 1
    /\ tick_dt = 0
    /\ events = <<>>
    /\ call = NoCall
    /\ unchanged = TRUE
    /\ since_emit = [x \in SimpleInputs |-> button_debounce_delay + 1]
    /\ feed = NoFeed
    /\ server = NoServer
    /\ process = Running

\* the spacings dt the model follows from the time since an emitted change
FollowedEmit(since, dt) ==
    \/ since + dt <= MaxFine
    \/ since + dt >= button_debounce_delay

\* the loop takes its next step: the process lives, and in inputs_debug.py,
\* whose loop is on the main thread, signal_handler is not running on it
PollRuns ==
    /\ process.alive
    /\ variant = "inputs_debug" => process.handler = "idle"

\* "current_time = time.time()"
LoopTime ==
    /\ pc = "time"
    /\ PollRuns
    /\ process.after_sigint < MaxAfter
    /\ \E dt \in TimeSteps :
          /\ \A i \in DOMAIN encoders : Followed(encoders[i], dt)
          /\ \A x \in SimpleInputs : FollowedEmit(since_emit[x], dt)
          /\ driven \in {"all", "faults", "none", "knob"} =>
                dt = button_debounce_delay + 1
          /\ tick_dt' = dt
          /\ since_emit' = [x \in SimpleInputs |->
                              Sat(since_emit[x] + dt, button_debounce_delay + 1)]
    /\ events' = <<>>
    /\ unchanged' = TRUE
    /\ IF variant = "socket_server"
       THEN pc' = "button" /\ idx' = idx
       ELSE pc' = (IF Len(encoders) = 0 THEN "display" ELSE "encoders") /\ idx' = 1
    /\ process' = [process EXCEPT !.after_sigint = IF process.sigint THEN @ + 1 ELSE @]
    /\ UNCHANGED <<variant, encoders, last_state, last_states, call, lines,
                   driven, feed, server>>

EmittedNow(since, evs, x) ==
    IF \E k \in DOMAIN evs :
          \/ x = "key" /\ evs[k].name = "key_change"
          \/ x # "key" /\ evs[k].name = "switch_change" /\ evs[k].switch = x
    THEN 0 ELSE since[x]

\* "self.button_monitor.check_and_emit()"
CheckButton ==
    /\ pc = "button"
    /\ PollRuns
    /\ \E level \in KeyLevels :
          LET r == button_check_and_emit(last_state, level)
          IN  /\ last_state' = r.last_state
              /\ events' = events \o r.events
              /\ since_emit' = [x \in SimpleInputs |-> EmittedNow(since_emit, r.events, x)]
              /\ lines' = [lines EXCEPT !.key = level]
              /\ unchanged' = (unchanged /\ level = lines.key)
    /\ pc' = "switches"
    /\ UNCHANGED <<variant, encoders, last_states, idx, tick_dt, call, driven, feed, server,
                   process>>

\* "self.switch_monitor.check_and_emit()"
CheckSwitches ==
    /\ pc = "switches"
    /\ PollRuns
    /\ \E values \in SwitchReads :
          LET r == switch_check_and_emit(last_states, values)
          IN  /\ last_states' = r.last_states
              /\ events' = events \o r.events
              /\ since_emit' = [x \in SimpleInputs |-> EmittedNow(since_emit, r.events, x)]
              /\ lines' = [lines EXCEPT !.sw = values]
              /\ unchanged' = (unchanged /\ values = lines.sw)
    /\ pc' = IF Len(encoders) = 0 THEN "sleep" ELSE "encoders"
    /\ idx' = 1
    /\ UNCHANGED <<variant, encoders, last_state, tick_dt, call, driven, feed, server,
                   process>>

\* "for encoder in self.encoders: encoder.update(current_time)", one call.
\* An exception that left update would leave "while True" for "finally".
UpdateEncoders ==
    /\ pc = "encoders"
    /\ PollRuns
    /\ encoders[idx].counter \in -MaxCounter..MaxCounter
    /\ \E rd \in EncoderReads(idx) :
          LET r == Update(variant, encoders[idx], tick_dt, rd)
          IN  /\ encoders' = [encoders EXCEPT ![idx] = r.self]
              /\ events' = events \o r.events
              /\ call' = CallOf(idx, encoders[idx], tick_dt, rd, r)
              /\ lines' = [lines EXCEPT !.enc[idx] = rd]
              /\ unchanged' = (unchanged /\ rd = lines.enc[idx])
    /\ idx' = idx + 1
    /\ pc' = IF lines'.enc[idx].fail # "none" /\ ~UpdateCatches(lines'.enc[idx].fail)
             THEN "finally"
             ELSE IF idx < Len(encoders) THEN "encoders"
             ELSE IF variant = "socket_server" THEN "sleep" ELSE "display"
    /\ UNCHANGED <<variant, last_state, last_states, tick_dt, since_emit, driven, feed, server,
                   process>>

\* "time.sleep(0.0001)", then the next iteration
Sleep ==
    /\ pc = "sleep"
    /\ PollRuns
    /\ pc' = "time"
    /\ UNCHANGED <<variant, encoders, last_state, last_states, idx, tick_dt, events,
                   call, lines, unchanged, since_emit, driven, feed, server, process>>

Next == LoopTime \/ CheckButton \/ CheckSwitches \/ UpdateEncoders \/ Sleep

Spec == Init /\ [][Next]_vars

\* ----------------------------------------------- several inputs at once
\* the state after FirmwareManager.__init__ of socket_server.py, all four
\* encoders set up, the environment driving the key, the switches and the
\* encoders of TurnedEncoders
InitAll ==
    /\ variant = "socket_server"
    /\ driven = "all"
    /\ \E key \in {0, 1}, sw \in [{18, 20, 21} -> {"1", "0"}],
          enc \in [1..4 -> [a : {0, 1}, b : {1}, button : {1}, fail : {"none"}]] :
          /\ \A i \in (1..4) \ TurnedEncoders : enc[i] = IdleLines.enc[i]
          /\ lines = [key |-> key, sw |-> sw, enc |-> enc]
    /\ last_state = None
    /\ last_states = get_switch_states(lines.sw)
    /\ encoders = [i \in 1..4 |->
                     NewEncoder(encoder_configs[i],
                                lines.enc[i].a, lines.enc[i].b, lines.enc[i].button)]
    /\ pc = "time"
    /\ idx = 1
    /\ tick_dt = 0
    /\ events = <<>>
    /\ call = NoCall
    /\ unchanged = TRUE
    /\ since_emit = [x \in SimpleInputs |-> button_debounce_delay + 1]
    /\ feed = NoFeed
    /\ server = NoServer
    /\ process = Running

SpecAll == InitAll /\ [][Next]_vars

\* ------------------------------------------------------------ shutdown
\* FirmwareManager.get_current_state of inputs_debug.py (RELEASED, PRESSED
\* and ERROR written as 1, 0 and None)
get_current_state(level, values) ==
    <<get_button_status(level), get_switch_states(values),
      [i \in DOMAIN encoders |-> encoders[i].counter]>>

\* "manager.display_status()" of the loop of inputs_debug.py: the key and
\* the switches are read, and the screen is redrawn when something changed
DisplayStatus ==
    /\ pc = "display"
    /\ PollRuns
    /\ \E level \in KeyLevels, values \in SwitchReads :
          LET current_state == get_current_state(level, values)
          IN  /\ process' = [process EXCEPT !.last_display_state = current_state]
              /\ lines' = [lines EXCEPT !.key = level, !.sw = values]
              /\ unchanged' = (unchanged /\ level = lines.key /\ values = lines.sw)
    /\ pc' = "sleep"
    /\ UNCHANGED <<variant, encoders, last_state, last_states, idx, tick_dt, events,
                   call, since_emit, driven, feed, server>>

PollUnchanged ==
    UNCHANGED <<variant, encoders, last_state, last_states, idx, tick_dt, events,
                call, lines, unchanged, since_emit, driven, feed, server>>

\* SIGINT is delivered and signal_handler starts on the main thread:
\* "print('\nShutting down...')"
Sigint ==
    /\ process.alive /\ ~process.sigint
    /\ process' = [process EXCEPT !.sigint = TRUE, !.handler = "cleanup"]
    /\ UNCHANGED pc
    /\ PollUnchanged

\* signal_handler: "manager.cleanup()"
HandlerCleanup ==
    /\ process.alive /\ process.handler = "cleanup"
    /\ process' = [process EXCEPT !.handler = "exit", !.cleanups = @ + 1]
    /\ UNCHANGED pc
    /\ PollUnchanged

\* signal_handler: "sys.exit(0)".  In socket_server.py SystemExit ends the
\* main thread and with it the process, the daemon thread of the loop
\* included; in inputs_debug.py it is raised inside the loop, passes
\* "except KeyboardInterrupt" and reaches "finally".
HandlerExit ==
    /\ process.alive /\ process.handler = "exit"
    /\ IF variant = "socket_server"
       THEN /\ process' = [process EXCEPT !.handler = "done", !.alive = FALSE,
                                          !.exit_status = 0]
            /\ UNCHANGED pc
       ELSE /\ process' = [process EXCEPT !.handler = "done"]
            /\ pc' = "finally"
    /\ PollUnchanged

\* "finally: manager.cleanup()" of main of inputs_debug.py, then the exit
LoopFinally ==
    /\ process.alive /\ pc = "finally"
    /\ process' = [process EXCEPT !.cleanups = @ + 1, !.alive = FALSE,
                                  !.exit_status = 0]
    /\ pc' = "exited"
    /\ PollUnchanged

\* either program past its startup, all four encoders set up, the key
\* line driven by the environment
InitShutdown ==
    /\ variant \in {"socket_server", "inputs_debug"}
    /\ driven = "key"
    /\ \E key \in {0, 1, None} : lines = [IdleLines EXCEPT !.key = key]
    /\ last_state = None
    /\ last_states = get_switch_states(lines.sw)
    /\ encoders = [i \in 1..4 |->
                     NewEncoder(ConfigsOf(variant)[i],
                                lines.enc[i].a, lines.enc[i].b, lines.enc[i].button)]
    /\ pc = "time"
    /\ idx = 1
    /\ tick_dt = 0
    /\ events = <<>>
    /\ call = NoCall
    /\ unchanged = TRUE
    /\ since_emit = [x \in SimpleInputs |-> button_debounce_delay + 1]
    /\ feed = NoFeed
    /\ server = NoServer
    /\ process = Running

NextShutdown ==
    \/ LoopTime \/ CheckButton \/ CheckSwitches \/ UpdateEncoders \/ DisplayStatus
    \/ Sleep
    \/ Sigint \/ HandlerCleanup \/ HandlerExit \/ LoopFinally

SpecShutdown == InitShutdown /\ [][NextShutdown]_vars

\* ------------------------------------------------------------ subscribers
\* the payload of 'initial_state': the key and the switches as read now,
\* the counter of every encoder of manager.encoders
InitialState(sid, level, values) ==
    [sid |-> sid,
     key |-> get_button_status(level),
     switches |-> [color \in {colors[gpio_num] : gpio_num \in {18, 20, 21}} |->
                     get_switch_states(values)[CHOOSE gpio_num \in {18, 20, 21} :
                                                  colors[gpio_num] = color]],
     encoders |-> [id \in {encoders[i].encoder_id : i \in DOMAIN encoders} |->
                     encoders[CHOOSE i \in DOMAIN encoders :
                                 encoders[i].encoder_id = id].counter]]

\* the key state read for the snapshot is stored, as check_and_emit does
ConnectKeyStateStored(last, level) == get_button_status(level)

\* ButtonMonitor.last_state after handle_connect called get_button_status,
\* which returns the state and assigns nothing
ConnectKeyState(last, level) == last

\* handle_connect of socket_server.py, on the thread of the connection:
\* "emit('initial_state', ...)" goes to the client that connected
Connect ==
    /\ variant = "socket_server"
    /\ process.alive /\ process.startup = "done"
    /\ process.connections < MaxClients
    /\ \E level \in KeyLevels, values \in SwitchReads :
          LET sid == process.connections + 1
          IN  /\ process' = [process EXCEPT
                               !.connections = sid,
                               !.sent = Append(@, InitialState(sid, level, values))]
              /\ last_state' = ConnectKeyState(last_state, level)
    /\ UNCHANGED <<variant, encoders, last_states, pc, idx, tick_dt, events, call,
                   lines, unchanged, since_emit, driven, feed, server>>

\* handle_disconnect of socket_server.py: "print('Client disconnected')"
Disconnect ==
    /\ variant = "socket_server"
    /\ process.alive /\ process.startup = "done"
    /\ process.disconnections < process.connections
    /\ process' = [process EXCEPT !.disconnections = @ + 1]
    /\ UNCHANGED pc
    /\ PollUnchanged

\* ------------------------------------------------------------ startup
\* the process as main() begins: nothing constructed
Starting ==
    [Running EXCEPT !.startup = "switch_monitor", !.attempts = 0,
                    !.first = "none", !.retry = "none", !.configured = {}]

InitStartup ==
    /\ variant \in {"socket_server", "inputs_debug"}
    /\ process = Starting
    /\ encoders = <<>>
    /\ last_state = None
    /\ last_states = [gpio_num \in {18, 20, 21} |-> None]
    /\ lines = [IdleLines EXCEPT !.key = None,
                                 !.sw = [gpio_num \in {18, 20, 21} |-> "Error"]]
    /\ pc = "none"
    /\ idx = 0
    /\ tick_dt = 0
    /\ events = <<>>
    /\ call = NoCall
    /\ unchanged = TRUE
    /\ since_emit = [x \in SimpleInputs |-> button_debounce_delay + 1]
    /\ driven = "none"
    /\ feed = NoFeed
    /\ server = NoServer

StartupUnchanged ==
    UNCHANGED <<variant, idx, tick_dt, events, call, unchanged, since_emit, driven,
                feed, server>>

\* SwitchMonitor.__init__: export_gpio_pins prints and goes on when a pin
\* cannot be exported; a pin without its value file reads 'Error'
NewSwitchMonitor ==
    /\ process.alive /\ process.startup = "switch_monitor"
    /\ \E exported \in SUBSET {18, 20, 21} :
          LET values == [gpio_num \in {18, 20, 21} |->
                            IF gpio_num \in exported THEN "1" ELSE "Error"]
          IN  /\ lines' = [lines EXCEPT !.sw = values]
              /\ last_states' = get_switch_states(values)
              /\ process' = [process EXCEPT
                                !.startup = "setup_gpio",
                                !.configured = @ \cup {colors[gpio_num] : gpio_num \in exported}]
    /\ UNCHANGED <<encoders, last_state, pc>>
    /\ StartupUnchanged

\* ButtonMonitor.setup_gpio: an error of GPIO.setup is printed, no more
ButtonSetup(p, key_ok) ==
    [p EXCEPT !.configured = IF key_ok THEN @ \cup {"key"} ELSE @]

\* "except RuntimeError as e:" of setup_gpio: is the exception of the first
\* attempt taken by the handler that retries
FirstAttemptCaught(outcome) == outcome = "RuntimeError"

\* FirmwareManager.setup_gpio, the first attempt: cleanup, setmode, the
\* key's setup.  An exception that is no RuntimeError leaves setup_gpio,
\* __init__ and main: the process ends with a traceback and status 1.
SetupGpioFirst ==
    /\ process.alive /\ process.startup = "setup_gpio"
    /\ \E outcome \in {"ok", "RuntimeError", "other"}, key_ok \in BOOLEAN :
          LET p == [process EXCEPT !.attempts = @ + 1, !.first = outcome]
          IN  /\ process' =
                    IF outcome = "ok"
                    THEN [ButtonSetup(p, key_ok) EXCEPT !.startup = "setup_encoders"]
                    ELSE IF FirstAttemptCaught(outcome)
                    THEN [p EXCEPT !.startup = "retry"]
                    ELSE [p EXCEPT !.startup = "escaped", !.alive = FALSE,
                                   !.exit_status = 1]
              /\ lines' = [lines EXCEPT !.key = IF outcome = "ok" /\ key_ok
                                                THEN 1 ELSE None]
    /\ UNCHANGED <<encoders, last_state, last_states, pc>>
    /\ StartupUnchanged

\* the retry: "except Exception as retry_e: ... sys.exit(1)"
SetupGpioRetry ==
    /\ process.alive /\ process.startup = "retry"
    /\ \E outcome \in {"ok", "failed"}, key_ok \in BOOLEAN :
          LET p == [process EXCEPT !.attempts = @ + 1, !.retry = outcome]
          IN  /\ process' =
                    IF outcome = "ok"
                    THEN [ButtonSetup(p, key_ok) EXCEPT !.startup = "setup_encoders"]
                    ELSE [p EXCEPT !.startup = "exited", !.alive = FALSE,
                                   !.exit_status = 1]
              /\ lines' = [lines EXCEPT !.key = IF outcome = "ok" /\ key_ok
                                                THEN 1 ELSE None]
    /\ UNCHANGED <<encoders, last_state, last_states, pc>>
    /\ StartupUnchanged

\* FirmwareManager.setup_encoders: an encoder whose setup_gpio returns
\* False is printed and left out of self.encoders
SetupEncoders ==
    /\ process.alive /\ process.startup = "setup_encoders"
    /\ \E ok \in SUBSET (1..4) :
          LET IsOk(config) == \E i \in ok : ConfigsOf(variant)[i] = config
              configs == SelectSeq(ConfigsOf(variant), IsOk)
          IN  encoders' = [i \in 1..Len(configs) |-> NewEncoder(configs[i], 1, 1, 1)]
    /\ process' = [process EXCEPT !.startup = "main"]
    /\ UNCHANGED <<last_state, last_states, lines, pc>>
    /\ StartupUnchanged

\* main: the handler of SIGINT is installed and the loop is started
StartLoop ==
    /\ process.alive /\ process.startup = "main"
    /\ process' = [process EXCEPT !.startup = "done"]
    /\ pc' = "time"
    /\ UNCHANGED <<encoders, last_state, last_states, lines>>
    /\ StartupUnchanged

NextStartup ==
    \/ NewSwitchMonitor \/ SetupGpioFirst \/ SetupGpioRetry \/ SetupEncoders
    \/ StartLoop
    \/ LoopTime \/ CheckButton \/ CheckSwitches \/ UpdateEncoders \/ DisplayStatus
    \/ Sleep
    \/ Connect \/ Disconnect

SpecStartup == InitStartup /\ [][NextStartup]_vars

\* ------------------------------------------------------------ failing reads
\* socket_server.py past its startup, all four encoders set up, every read
\* of the loop free to fail
InitFaults ==
    /\ variant = "socket_server"
    /\ driven = "faults"
    /\ lines = IdleLines
    /\ last_state = None
    /\ last_states = get_switch_states(lines.sw)
    /\ encoders = [i \in 1..4 |->
                     NewEncoder(encoder_configs[i],
                                lines.enc[i].a, lines.enc[i].b, lines.enc[i].button)]
    /\ pc = "time"
    /\ idx = 1
    /\ tick_dt = 0
    /\ events = <<>>
    /\ call = NoCall
    /\ unchanged = TRUE
    /\ since_emit = [x \in SimpleInputs |-> button_debounce_delay + 1]
    /\ feed = NoFeed
    /\ server = NoServer
    /\ process = Running

SpecFaults == InitFaults /\ [][Next]_vars

\* ------------------------------------------------- update, in two steps
\* update as the connection thread can see it: the statements up to
\* "self.last_b = current_b" have run, "Handle button" has not
UpdateRotation ==
    /\ pc = "encoders"
    /\ PollRuns
    /\ encoders[idx].counter \in -MaxCounter..MaxCounter
    /\ \E rd \in {x \in EncoderReads(idx) : x.fail = "none"} :
          LET self == encoders[idx]
              r == Update(variant, self, tick_dt, rd)
          IN  /\ encoders' = [encoders EXCEPT ![idx] =
                                [self EXCEPT !.counter = r.stepped,
                                             !.last_a = r.self.last_a,
                                             !.last_b = r.self.last_b,
                                             !.since_encoder = r.self.since_encoder]]
              /\ call' = CallOf(idx, self, tick_dt, rd, r)
              /\ lines' = [lines EXCEPT !.enc[idx] = rd]
              /\ unchanged' = (unchanged /\ rd = lines.enc[idx])
    /\ pc' = "encoder_button"
    /\ UNCHANGED <<variant, last_state, last_states, idx, tick_dt, events, since_emit,
                   driven, feed, server, process>>

\* the rest of update: "Handle button", the two emits
UpdateButton ==
    /\ pc = "encoder_button"
    /\ PollRuns
    /\ LET self == encoders[idx]
           current_button == IF self.pin_button # None THEN call.button ELSE 1
           press_edge == self.pin_button # None /\ current_button = 0
                         /\ self.last_button = 1
           button_pressed == press_edge /\ PressAccepted(self, call.dt)
           counter == IF button_pressed THEN 0 ELSE self.counter
       IN  /\ encoders' = [encoders EXCEPT ![idx] =
                             [self EXCEPT
                                !.counter = counter,
                                !.last_counter = counter,
                                !.last_button = IF self.pin_button # None
                                                THEN current_button ELSE @,
                                !.since_button = IF button_pressed THEN 0
                                                 ELSE ButtonElapsed(self, call.dt)]]
           /\ events' = events \o UpdateEvents(self, counter, button_pressed)
    /\ idx' = idx + 1
    /\ pc' = IF idx < Len(encoders) THEN "encoders" ELSE "sleep"
    /\ UNCHANGED <<variant, last_state, last_states, tick_dt, call, lines, unchanged,
                   since_emit, driven, feed, server, process>>

\* socket_server.py past its startup, all four encoders set up, the first
\* one turned and pressed while clients connect
InitConnect ==
    /\ variant = "socket_server"
    /\ driven = "knob"
    /\ \E a \in {0, 1}, b \in {0, 1}, button \in {0, 1} :
          lines = [IdleLines EXCEPT !.enc[1] = [a |-> a, b |-> b, button |-> button,
                                               fail |-> "none"]]
    /\ last_state = None
    /\ last_states = get_switch_states(lines.sw)
    /\ encoders = [i \in 1..4 |->
                     NewEncoder(encoder_configs[i],
                                lines.enc[i].a, lines.enc[i].b, lines.enc[i].button)]
    /\ pc = "time"
    /\ idx = 1
    /\ tick_dt = 0
    /\ events = <<>>
    /\ call = NoCall
    /\ unchanged = TRUE
    /\ since_emit = [x \in SimpleInputs |-> button_debounce_delay + 1]
    /\ feed = NoFeed
    /\ server = NoServer
    /\ process = Running

NextConnect ==
    \/ LoopTime \/ CheckButton \/ CheckSwitches \/ UpdateRotation \/ UpdateButton
    \/ Sleep
    \/ Connect \/ Disconnect

SpecConnect == InitConnect /\ [][NextConnect]_vars

\* ------------------------------------------------------------ simulator
\* SimulatorServer.emit_key_change
emit_key_change(self, active) ==
    [self EXCEPT !.key_active = active,
                 !.emitted = <<[name |-> "key_change", active |-> active]>>]

\* SimulatorServer.emit_switch_change
emit_switch_change(self, color, active) ==
    [self EXCEPT !.switches[color] = active,
                 !.emitted = <<[name |-> "switch_change", switch |-> color,
                                active |-> active]>>]

\* SimulatorServer.emit_encoder_change
emit_encoder_change(self, encoder_id, delta) ==
    [self EXCEPT !.encoders[encoder_id] = @ + delta,
                 !.emitted = <<[name |-> "encoder_change",
                                encoder_id |-> encoder_id,
                                value |-> self.encoders[encoder_id] + delta,
                                direction |-> IF delta > 0 THEN "right" ELSE "left"]>>]

\* the press is emitted and the counter is left as it was
emit_encoder_button_press_only(self, encoder_id) ==
    [self EXCEPT !.emitted = <<[name |-> "encoder_button_press",
                                encoder_id |-> encoder_id]>>]

\* SimulatorServer.emit_encoder_button_press
emit_encoder_button_press(self, encoder_id) ==
    [self EXCEPT !.encoders[encoder_id] = 0,
                 !.emitted = <<[name |-> "encoder_button_press",
                                encoder_id |-> encoder_id]>>]

\* Python's not on True and False
Not(active) == IF active = 1 THEN 0 ELSE 1

\* the place in FirmwareManager.encoders of the encoder with this id
PositionOf(encoder_id) ==
    CHOOSE i \in 1..4 : encoder_configs[i].encoder_id = encoder_id

\* The simulator next to the engine of socket_server.py: every logical
\* input action is given to both, to the simulator as the key of draw_ui
\* and to the engine as the line levels of the poll iteration that sees
\* the action, 201 ms after the one before.  The engine is past its
\* first iteration with every input released, so last_state and
\* last_states hold True.  A run acts on one input (driven), as the poll
\* loop runs above; events holds what the engine emitted for the action
\* and server.emitted what the simulator emitted for it.
InitSimulator ==
    /\ variant = "socket_server"
    /\ driven \in {"key", "switches"} \cup {EncName[i] : i \in 1..4}
    /\ encoders = [i \in 1..4 |-> NewEncoder(encoder_configs[i], 1, 1, 1)]
    /\ last_state = 1
    /\ last_states = [gpio_num \in {18, 20, 21} |-> 1]
    /\ events = <<>>
    /\ call = NoCall
    /\ feed = NoFeed
    /\ server = NoServer
    /\ pc = "none"
    /\ idx = 0
    /\ tick_dt = button_debounce_delay + 1
    /\ lines = IdleLines
    /\ unchanged = TRUE
    /\ since_emit = [x \in SimpleInputs |-> button_debounce_delay + 1]
    /\ process = Running

SimulatorUnchanged ==
    UNCHANGED <<variant, pc, idx, tick_dt, unchanged, since_emit, driven, feed, process>>

\* 'k': the key changes level
ToggleKey ==
    /\ driven = "key"
    /\ server' = emit_key_change(server, Not(server.key_active))
    /\ LET r == button_check_and_emit(last_state, 1 - lines.key)
       IN  /\ last_state' = r.last_state
           /\ events' = r.events
           /\ lines' = [lines EXCEPT !.key = 1 - @]
    /\ UNCHANGED <<encoders, last_states, call>>
    /\ SimulatorUnchanged

\* 'g', 'b', 'r': one switch changes level
ToggleSwitch ==
    /\ driven = "switches"
    /\ \E gpio_num \in {18, 20, 21} :
          LET color == colors[gpio_num]
              values == [lines.sw EXCEPT ![gpio_num] = IF @ = "1" THEN "0" ELSE "1"]
              r == switch_check_and_emit(last_states, values)
          IN  /\ server' = emit_switch_change(server, color, Not(server.switches[color]))
              /\ last_states' = r.last_states
              /\ events' = r.events
              /\ lines' = [lines EXCEPT !.sw = values]
    /\ UNCHANGED <<encoders, last_state, call>>
    /\ SimulatorUnchanged

\* '1' '2', 'q' 'w', 'a' 's', 'z' 'x': one detent of one encoder, an A edge
\* with the B level of the direction
TurnEncoder ==
    /\ \E encoder_id \in 1..4, delta \in {-1, 1} :
          LET i == PositionOf(encoder_id)
          IN  /\ driven = EncName[i]
              /\ server.encoders[encoder_id] + delta \in -MaxCounter..MaxCounter
              /\ encoders[i].counter + delta \in -MaxCounter..MaxCounter
              /\ \E rd \in ReadsOf(encoders[i]) :
                    LET r == Update("socket_server", encoders[i],
                                    button_debounce_delay + 1, rd)
                    IN  /\ rd.fail = "none"
                        /\ rd.a = 1 - encoders[i].last_a
                        /\ rd.button = encoders[i].last_button
                        /\ r.step = delta
                        /\ server' = emit_encoder_change(server, encoder_id, delta)
                        /\ encoders' = [encoders EXCEPT ![i] = r.self]
                        /\ events' = r.events
                        /\ call' = CallOf(i, encoders[i], button_debounce_delay + 1, rd, r)
                        /\ lines' = [lines EXCEPT !.enc[i] = rd]
    /\ UNCHANGED <<last_state, last_states>>
    /\ SimulatorUnchanged

\* '3', 'e', 'd', 'c': the button of one encoder goes down; encoder 4 has
\* no button line, and its iteration reads the A and B levels it had
PressEncoderButton ==
    /\ \E encoder_id \in 1..4 :
          LET i == PositionOf(encoder_id)
              rd == [a |-> encoders[i].last_a, b |-> encoders[i].last_b,
                     button |-> IF encoders[i].pin_button # None THEN 0 ELSE 1,
                     fail |-> "none"]
              r == Update("socket_server", encoders[i], button_debounce_delay + 1, rd)
          IN  /\ driven = EncName[i]
              /\ encoders[i].last_button = 1
              /\ server' = emit_encoder_button_press(server, encoder_id)
              /\ encoders' = [encoders EXCEPT ![i] = r.self]
              /\ events' = r.events
              /\ call' = CallOf(i, encoders[i], button_debounce_delay + 1, rd, r)
              /\ lines' = [lines EXCEPT !.enc[i] = rd]
    /\ UNCHANGED <<last_state, last_states>>
    /\ SimulatorUnchanged

\* the button goes up again: an iteration of the engine, no key of draw_ui
ReleaseEncoderButton ==
    /\ \E i \in 1..4 :
          LET rd == [a |-> encoders[i].last_a, b |-> encoders[i].last_b,
                     button |-> 1, fail |-> "none"]
              r == Update("socket_server", encoders[i], button_debounce_delay + 1, rd)
          IN  /\ driven = EncName[i]
              /\ encoders[i].last_button = 0
              /\ server' = [server EXCEPT !.emitted = <<>>]
              /\ encoders' = [encoders EXCEPT ![i] = r.self]
              /\ events' = r.events
              /\ call' = CallOf(i, encoders[i], button_debounce_delay + 1, rd, r)
              /\ lines' = [lines EXCEPT !.enc[i] = rd]
    /\ UNCHANGED <<last_state, last_states>>
    /\ SimulatorUnchanged

\* the payload of the initial_state event of handle_connect
initial_state(self) ==
    [key |-> [active |-> self.key_active],
     switches |-> [color \in {"green", "blue", "red"} |-> [active |-> self.switches[color]]],
     encoders |-> self.encoders]

\* the answer of the /status route
status(self) ==
    [connected_clients |-> self.connected_clients,
     key |-> self.key_active,
     switches |-> self.switches,
     encoders |-> self.encoders]

\* the handlers run on one thread per client (async_mode='threading') and
\* no lock is taken: "server.connected_clients += 1" is a load, an add
\* and a store, and another thread may run between the load and the store.
\* MaxClients clients connect and disconnect, once each, in the runs that
\* act on the key.
SimulatorClientStep ==
    UNCHANGED <<variant, encoders, last_state, last_states, pc, idx, tick_dt, events,
                call, lines, unchanged, since_emit, driven, feed, process>>

\* handle_connect: the load of "server.connected_clients += 1"
SimConnectLoad ==
    /\ driven = "key"
    /\ \E sid \in 1..MaxClients :
          /\ server.threads[sid].at = "out"
          /\ server' = [server EXCEPT !.threads[sid] =
                           [at |-> "connect", loaded |-> server.connected_clients]]
    /\ SimulatorClientStep

\* handle_connect: the store, then the emit of initial_state
SimConnectStore ==
    /\ driven = "key"
    /\ \E sid \in 1..MaxClients :
          /\ server.threads[sid].at = "connect"
          /\ server' = [server EXCEPT !.connected_clients = server.threads[sid].loaded + 1,
                                      !.sent = initial_state(server),
                                      !.threads[sid].at = "in"]
    /\ SimulatorClientStep

\* handle_disconnect: the load of "server.connected_clients -= 1"
SimDisconnectLoad ==
    /\ driven = "key"
    /\ \E sid \in 1..MaxClients :
          /\ server.threads[sid].at = "in"
          /\ server' = [server EXCEPT !.threads[sid] =
                           [at |-> "disconnect", loaded |-> server.connected_clients]]
    /\ SimulatorClientStep

\* handle_disconnect: the store
SimDisconnectStore ==
    /\ driven = "key"
    /\ \E sid \in 1..MaxClients :
          /\ server.threads[sid].at = "disconnect"
          /\ server' = [server EXCEPT !.connected_clients = server.threads[sid].loaded - 1,
                                      !.threads[sid].at = "gone"]
    /\ SimulatorClientStep

NextSimulator ==
    \/ ToggleKey
    \/ ToggleSwitch
    \/ TurnEncoder
    \/ PressEncoderButton
    \/ ReleaseEncoderButton
    \/ SimConnectLoad
    \/ SimConnectStore
    \/ SimDisconnectLoad
    \/ SimDisconnectStore

SpecSimulator == InitSimulator /\ [][NextSimulator]_vars

\* ------------------------------------------------------------ claims
\* the encoder the latest update was called on, before and after the call
Before == encoders[call'.index]
After == encoders'[call'.index]

EventsNamed(evs, name) == {k \in DOMAIN evs : evs[k].name = name}

\* a press edge read by the update this step takes
PressEdgeStep ==
    /\ call'.updated /\ call'.fail = "none"
    /\ Before.pin_button # None
    /\ Before.last_button = 1 /\ call'.button = 0

\* an A edge read by the update this step takes
AEdgeStep ==
    /\ call'.updated /\ call'.fail = "none"
    /\ call'.a # Before.last_a

\* the counter the rotation of this step leads to, without a button reset
SteppedCounter(step) ==
    IF variant = "inputs_debug" /\ Before.counter + step < 0 THEN 0
    ELSE Before.counter + step

\* the events the step adds to those of the iteration
NewEvents == SubSeq(events', Len(events) + 1, Len(events'))

ChangesOf(evs, x) ==
    {k \in DOMAIN evs :
        \/ x = "key" /\ evs[k].name = "key_change"
        \/ x # "key" /\ evs[k].name = "switch_change" /\ evs[k].switch = x}

SimpleStep == pc \in {"button", "switches"} /\ pc' # pc

\* C1: every encoder counter is >= 0 and no encoder_change carries a
\* negative value, after any sequence of updates.
C1_CounterNeverNegative ==
    /\ \A i \in DOMAIN encoders : encoders[i].counter >= 0
    /\ \A k \in EventsNamed(events, "encoder_change") : events[k].value >= 0

\* C2: an update that accepts a button press while the counter is > 0
\* emits no encoder_change.
C2_NoChangeEventOnReset ==
    (call.updated /\ call.button_pressed /\ call.counter_before > 0)
        => EventsNamed(events, "encoder_change") = {}

\* C3: an update that reads a press edge the button window lets through
\* ends with counter = 0 and, in the socket server, emits exactly one
\* encoder_button_press, carrying the encoder's id.
C3_AcceptedPressResets ==
    [][ (PressEdgeStep /\ Before.since_button + call'.dt > button_debounce_delay)
          => /\ After.counter = 0
             /\ variant = "socket_server" =>
                   /\ Cardinality(EventsNamed(events', "encoder_button_press")) = 1
                   /\ \A k \in EventsNamed(events', "encoder_button_press") :
                         events'[k].encoder_id = Before.encoder_id ]_vars

\* a state reached by an accepted press that came with a rotation step
\* while the counter was not 0
C3_Witness ==
    /\ call.updated /\ call.button_pressed
    /\ call.counter_before > 0 /\ call.step # 0
    /\ variant = "socket_server"
    /\ encoders[call.index].counter = 0

\* C4: a press edge no more than 0.2 s after the last accepted press emits
\* no encoder_button_press and does not reset the counter; an accepted
\* press comes more than 0.2 s after the previous accepted one.
C4_PressRateLimited ==
    [][ /\ (PressEdgeStep /\ Before.since_button + call'.dt <= button_debounce_delay)
            => /\ EventsNamed(events', "encoder_button_press") = {}
               /\ ~call'.button_pressed
               /\ After.counter = SteppedCounter(call'.step)
               /\ After.since_button = Before.since_button + call'.dt
        /\ (call'.updated /\ (call'.button_pressed
                              \/ EventsNamed(events', "encoder_button_press") # {}))
            => Before.since_button + call'.dt > button_debounce_delay ]_vars

\* a press edge exactly 0.2 s after the accepted one, suppressed, the
\* counter keeping its value
C4_Witness ==
    /\ call.updated /\ call.press_edge /\ ~call.button_pressed
    /\ encoders[call.index].since_button = button_debounce_delay
    /\ call.counter_before > 0
    /\ encoders[call.index].counter = call.counter_before

\* C5: two consecutive emitted changes of the key, or of one switch, are
\* more than the 200 ms debounce window apart.
C5_SimpleInputsDebounced ==
    [][ SimpleStep =>
          \A x \in SimpleInputs :
              ChangesOf(NewEvents, x) # {} => since_emit[x] > button_debounce_delay ]_vars

\* C6: a failed read of the key line or of a switch line emits no event
\* for that input in the iteration and keeps its stored state.
C6_FailedReadKeepsState ==
    [][ /\ (pc = "button" /\ pc' # pc /\ lines'.key = None)
            => /\ ChangesOf(NewEvents, "key") = {}
               /\ last_state' = last_state
        /\ (pc = "switches" /\ pc' # pc)
            => \A gpio_num \in {18, 20, 21} :
                  lines'.sw[gpio_num] = "Error"
                     => /\ ChangesOf(NewEvents, colors[gpio_num]) = {}
                        /\ last_states'[gpio_num] = last_states[gpio_num] ]_vars

\* C7: an update in which a read of A, B or the button fails emits nothing
\* and leaves counter, last_counter, last_a, last_b, last_button,
\* last_encoder_time and last_button_time as they were.
C7_ReadFailureChangesNothing ==
    [][ (call'.updated /\ call'.fail # "none")
          => /\ events' = <<>>
             /\ After.counter = Before.counter
             /\ After.last_counter = Before.last_counter
             /\ After.last_a = Before.last_a
             /\ After.last_b = Before.last_b
             /\ After.last_button = Before.last_button
             /\ After.since_encoder =
                   Sat(Before.since_encoder + call'.dt, encoder_debounce_delay + 1)
             /\ After.since_button =
                   Sat(Before.since_button + call'.dt, button_debounce_delay + 1) ]_vars

\* a failed button read of an encoder that has counted and is inside both
\* windows
C7_Witness ==
    /\ call.updated /\ call.fail = "button"
    /\ encoders[call.index].counter > 0
    /\ encoders[call.index].since_button <= MaxFine
    /\ encoders[call.index].since_encoder <= encoder_debounce_delay

\* C8: a poll iteration in which every line reads what it read before
\* (at construction, for the first iteration) emits no event.
C8_UnchangedInputsEmitNothing ==
    (pc = "sleep" /\ unchanged) => events = <<>>

\* C9: an accepted A edge steps by +1 when (A rising, B = 0) or (A falling,
\* B = 1) and by -1 when (A rising, B = 1) or (A falling, B = 0), B being
\* the level of the same update; rotation makes no other step.
C9_QuadratureTruthTable ==
    [][ call'.updated =>
          LET accepted == AEdgeStep
                          /\ Before.since_encoder + call'.dt > encoder_debounce_delay
              rising == call'.a = 1
              expected ==
                  IF ~accepted THEN 0
                  ELSE IF (rising /\ call'.b = 0) \/ (~rising /\ call'.b = 1) THEN 1
                  ELSE -1
          IN  /\ call'.step = expected
              /\ ~call'.button_pressed => After.counter = SteppedCounter(expected) ]_vars

\* both rows of the table that step forward and both that step backward
\* have been taken
C9_Witness ==
    /\ call.updated /\ call.step = -1 /\ call.a = 0 /\ call.b = 0
    /\ encoders[call.index].counter = call.counter_before - 1
    /\ call.counter_before = 2

\* C10: fed the canonical sequence one sample per update, spaced more than
\* the encoder window, with no button press, the counter never decreases
\* and goes up by 1 at each A edge; fed the reverse sequence it never
\* increases and each A edge steps by -1.
C10_CanonicalSequenceCounts ==
    [][ LET a_edge == call'.a # Before.last_a
        IN  /\ feed.dir = "forward" =>
                  After.counter = Before.counter + (IF a_edge THEN 1 ELSE 0)
            /\ feed.dir = "reverse" =>
                  /\ call'.step = (IF a_edge THEN -1 ELSE 0)
                  /\ After.counter = SteppedCounter(IF a_edge THEN -1 ELSE 0) ]_vars

\* a cycle and a half of the forward sequence has been counted
C10_Witness ==
    /\ feed.dir = "forward" /\ call.updated
    /\ encoders[1].counter = 3
    /\ call.step = 1 /\ call.a = 0 /\ call.b = 1

\* C11: an A edge is accepted exactly when more than 1 ms has passed since
\* the last accepted A edge; a rejected A edge leaves the counter (but
\* for a button reset) and last_encoder_time as they were, so the time
\* towards the next acceptance keeps running from the last accepted edge.
C11_EdgeWindowFromLastAccepted ==
    [][ AEdgeStep =>
          LET elapsed == Before.since_encoder + call'.dt
          IN  /\ (call'.step # 0) <=> (elapsed > encoder_debounce_delay)
              /\ elapsed > encoder_debounce_delay => After.since_encoder = 0
              /\ elapsed <= encoder_debounce_delay =>
                    /\ After.since_encoder = elapsed
                    /\ ~call'.button_pressed => After.counter = Before.counter ]_vars

\* an A edge exactly 1 ms after the accepted one, rejected, the counter
\* and the running time kept
C11_Witness ==
    /\ call.updated /\ call.fail = "none" /\ call.edge /\ call.step = 0
    /\ encoders[call.index].since_encoder = encoder_debounce_delay
    /\ call.counter_before > 0
    /\ encoders[call.index].counter = call.counter_before

\* C12: an update that reads A at the level of last_a makes no rotation
\* step whatever B reads; the counter changes in it only by an accepted
\* button press.
C12_BAloneNeverSteps ==
    [][ (call'.updated /\ call'.fail = "none" /\ call'.a = Before.last_a)
          => /\ call'.step = 0
             /\ After.counter # Before.counter => call'.button_pressed ]_vars

\* B changed alone, outside the encoder window, and the counter kept its
\* value
C12_Witness ==
    /\ call.updated /\ call.fail = "none" /\ ~call.edge
    /\ call.b # call.b_before
    /\ encoders[call.index].since_encoder > encoder_debounce_delay
    /\ call.counter_before > 0
    /\ encoders[call.index].counter = call.counter_before

\* the place of an event in the order the inputs are declared in: the key,
\* then green, blue, red, then the encoders as configured
Rank(e) ==
    IF e.name = "key_change" THEN 0
    ELSE IF e.name = "switch_change"
    THEN (IF e.switch = "green" THEN 1 ELSE IF e.switch = "blue" THEN 2 ELSE 3)
    ELSE 3 + (CHOOSE i \in 1..4 : encoder_configs[i].encoder_id = e.encoder_id)

\* C13: the events of one poll iteration come in declaration order (the
\* key_change, then the switch_change of green, blue, red, then the
\* events of the encoders in configured order, at most one event of a
\* kind per input), and each check adds exactly the events its stored
\* state, its samples and the timestamp determine.
C13_EventsInDeclarationOrder ==
    [][ /\ \A i, j \in DOMAIN events' :
              i < j => \/ Rank(events'[i]) < Rank(events'[j])
                       \/ /\ Rank(events'[i]) = Rank(events'[j])
                          /\ events'[i].name = "encoder_change"
                          /\ events'[j].name = "encoder_button_press"
        /\ (pc = "button" /\ pc' # pc) =>
              NewEvents = button_check_and_emit(last_state, lines'.key).events
        /\ (pc = "switches" /\ pc' # pc) =>
              NewEvents = switch_check_and_emit(last_states, lines'.sw).events
        /\ (pc = "encoders" /\ call' # call) =>
              NewEvents = Update(variant, encoders[idx], tick_dt, lines'.enc[idx]).events
      ]_vars

\* an iteration in which the key, all three switches and two encoders
\* changed
C13_Witness ==
    /\ pc = "sleep" /\ Len(events) = 6
    /\ events[1].name = "key_change"
    /\ events[2].name = "switch_change" /\ events[2].switch = "green"
    /\ events[4].name = "switch_change" /\ events[4].switch = "red"
    /\ events[5].name = "encoder_change" /\ events[5].encoder_id = 3
    /\ events[6].name = "encoder_change" /\ events[6].encoder_id = 2

\* the switch was read at one level and is now read at the other
Alternated(gpio_num) ==
    /\ lines.sw[gpio_num] \in {"0", "1"} /\ lines'.sw[gpio_num] \in {"0", "1"}
    /\ lines'.sw[gpio_num] # lines.sw[gpio_num]

\* C14: a key or switch read at the other level than before, more than
\* the debounce window later, emits exactly one event for that input,
\* its active field the new level; in an iteration in which a switch
\* alternates, no event is emitted for another switch, or for the key,
\* whose level did not change.
C14_AlternationEmitsOnce ==
    [][ /\ (pc = "button" /\ pc' # pc /\ tick_dt > button_debounce_delay
            /\ lines.key \in {0, 1} /\ lines'.key \in {0, 1}
            /\ lines'.key # lines.key)
             => NewEvents = <<KeyChange(lines'.key)>>
        /\ (pc = "switches" /\ pc' # pc /\ tick_dt > button_debounce_delay) =>
              \A gpio_num \in {18, 20, 21} :
                  Alternated(gpio_num) =>
                     /\ Cardinality(ChangesOf(NewEvents, colors[gpio_num])) = 1
                     /\ \A k \in ChangesOf(NewEvents, colors[gpio_num]) :
                           NewEvents[k].active = SwitchStatus(lines'.sw[gpio_num])
                     /\ \A other \in {18, 20, 21} :
                           lines'.sw[other] = lines.sw[other]
                              => ChangesOf(NewEvents, colors[other]) = {}
                     /\ unchanged => ChangesOf(events, "key") = {} ]_vars

\* C15: after SIGINT is delivered the poll loop samples in at most one
\* further iteration: no second iteration begun after the signal reaches
\* a read of an input.
C15_StopsWithinOneIteration ==
    ~(process.sigint /\ process.after_sigint >= 2
      /\ pc \in {"switches", "encoders", "display", "sleep"})

\* C16: the poll loop is entered only with every declared input set up:
\* the key, the three switches and all four encoders.
C16_UnconfiguredInputIsFatal ==
    pc # "none" =>
       /\ process.configured = SimpleInputs
       /\ Len(encoders) = 4

\* C18: setup_gpio attempts the GPIO mode setup at most twice, the second
\* time only after the first failed; a failed retry exits with status 1,
\* no encoder set up and the loop not entered; and a failed first attempt
\* always leads to the retry, whatever failed.
C18_SingleBoundedRetry ==
    /\ process.attempts <= 2
    /\ process.attempts = 2 => process.first \notin {"none", "ok"}
    /\ process.retry = "failed" =>
          /\ ~process.alive /\ process.exit_status = 1
          /\ encoders = <<>> /\ pc = "none"
    /\ process.first \notin {"none", "ok"} =>
          \/ process.startup = "retry"
          \/ process.attempts = 2

C19_FullSnapshotPerSubscriber ==
    /\ Len(process.sent) = process.connections
    /\ \A k \in DOMAIN process.sent :
          /\ process.sent[k].sid = k
          /\ DOMAIN process.sent[k].switches = {"green", "blue", "red"}
          /\ DOMAIN process.sent[k].encoders = {1, 2, 3, 4}

\* C20: the counter of every encoder in an initial_state is its counter at
\* a tick boundary: for an encoder in the middle of update, the value
\* before this update or the value after it; for the others, the value
\* they have.
C20_SnapshotAtTickBoundary ==
    [][ process'.connections > process.connections =>
          LET payload == process'.sent[process'.connections]
          IN  \A i \in DOMAIN encoders :
                 payload.encoders[encoders[i].encoder_id] \in
                    IF pc = "encoder_button" /\ i = idx
                    THEN {call.counter_before,
                          IF call.button_pressed THEN 0 ELSE encoders[i].counter}
                    ELSE {encoders[i].counter} ]_vars

\* C21: a call of handle_connect or handle_disconnect leaves the engine
\* as it was: the key's last_state, the switches' last_states, every
\* field of every encoder, and the events and position of the poll loop.
C21_PublisherNeverMutatesEngine ==
    [][ (process'.connections # process.connections
         \/ process'.disconnections # process.disconnections)
          => UNCHANGED <<encoders, last_state, last_states, events, pc, idx>> ]_vars

\* a client has connected twice and disconnected once in the middle of the
\* iteration that stored and emitted the key state
C21_Witness ==
    /\ process.connections = 2 /\ process.disconnections = 1
    /\ process.sent[2].key = 1
    /\ pc = "encoders" /\ idx = 3 /\ Len(encoders) = 4
    /\ last_state = 1 /\ Len(events) = 1

\* C22: the simulator and the engine of socket_server.py, given the same
\* logical input actions, emit the same events (timestamps apart) and
\* hold the same key, switch and counter state
C22_SimulatorEmitsAsHardware ==
    /\ server.emitted = events
    /\ server.key_active = last_state
    /\ \A gpio_num \in {18, 20, 21} : server.switches[colors[gpio_num]] = last_states[gpio_num]
    /\ \A i \in 1..4 : server.encoders[encoders[i].encoder_id] = encoders[i].counter

\* C23: in the debug monitor every counter stays within the range 0 to
\* 100 that setup_encoders prints
C23_CounterWithinAdvertisedRange ==
    variant = "inputs_debug" =>
        \A i \in 1..Len(encoders) : encoders[i].counter \in 0..range_end

\* C24: after every update that read its lines, last_a is the A level and
\* last_b the B level the update sampled, whether the window accepted the
\* A edge or not
C24_EdgeTrackingFollowsLines ==
    [][ (call'.updated /\ call'.fail = "none")
          => /\ After.last_a = call'.a
             /\ After.last_b = call'.b ]_vars

\* an A edge the window suppressed, with a change of B, both stored
C24_Witness ==
    /\ variant = "socket_server"
    /\ call.updated /\ call.fail = "none"
    /\ call.edge /\ call.step = 0 /\ call.dt <= encoder_debounce_delay
    /\ call.b # call.b_before
    /\ encoders[1].last_a = call.a /\ encoders[1].last_b = call.b

\* C25: in socket_server.py, after every update that read its lines
\* last_counter equals counter; encoder_change is emitted exactly when the
\* counter at the end of the update differs from last_counter, which holds
\* the value of the encoder's previous encoder_change (0 before the
\* first), and the event carries the counter at the end of the update
C25_ChangeEmittedOnEndOfTickCounter ==
    [][ (variant = "socket_server" /\ call'.updated /\ call'.fail = "none")
          => /\ Before.last_counter = Before.counter
             /\ After.last_counter = After.counter
             /\ Cardinality(EventsNamed(events', "encoder_change"))
                   = (IF After.counter # Before.last_counter THEN 1 ELSE 0)
             /\ \A k \in EventsNamed(events', "encoder_change") :
                   /\ events'[k].value = After.counter
                   /\ events'[k].encoder_id = After.encoder_id ]_vars

\* a step right and a press in one update, from 2: one change, to 0
C25_Witness ==
    /\ variant = "socket_server"
    /\ call.updated /\ call.fail = "none"
    /\ call.counter_before = 2 /\ call.step = 1 /\ call.button_pressed
    /\ encoders[1].counter = 0 /\ encoders[1].last_counter = 0
    /\ Len(events) = 2 /\ events[1].name = "encoder_change" /\ events[1].value = 0

\* C26: the button is handled on its falling edge: an update that finds
\* last_button low neither resets nor emits encoder_button_press, and
\* every update that read its lines stores the button level it sampled,
\* so a hold gives one press at most and a press the window suppressed
\* is not taken later in the hold
C26_ButtonIsEdgeTriggered ==
    [][ (call'.updated /\ call'.fail = "none" /\ Before.pin_button # None)
          => /\ After.last_button = call'.button
             /\ (Before.last_button = 0 =>
                    /\ ~call'.button_pressed
                    /\ EventsNamed(events', "encoder_button_press") = {}
                    /\ After.counter = SteppedCounter(call'.step)) ]_vars

\* the button is held, the window has passed, the counter is not reset
C26_Witness ==
    /\ call.updated /\ call.fail = "none"
    /\ encoders[1].pin_button # None
    /\ call.button = 0 /\ ~call.press_edge
    /\ encoders[1].last_button = 0
    /\ encoders[1].since_button > button_debounce_delay
    /\ encoders[1].counter = 2

\* C27: in socket_server.py, once signal_handler has run GPIO.cleanup()
\* the poll thread takes no further step of its loop: it samples no input
\* and emits no event
C27_NoPollAfterCleanup ==
    [][ (variant = "socket_server" /\ process.cleanups > 0)
          => (pc' = pc /\ events' = events /\ last_state' = last_state) ]_vars

\* C28: a process ended by SIGINT has run the hardware cleanup exactly
\* once, and never more than once on the way
C28_CleanupExactlyOnce ==
    /\ process.cleanups <= 1
    /\ (process.sigint /\ ~process.alive) => process.cleanups = 1

\* C29: in the simulator connected_clients is the number of clients whose
\* connect handler has completed and whose disconnect handler has not,
\* and is never negative
C29_ConnectedClientsCountsSubscribers ==
    /\ server.connected_clients
         = Cardinality({sid \in 1..MaxClients : server.threads[sid].at \in {"in", "disconnect"}})
    /\ server.connected_clients >= 0

\* what a client that follows the events holds after one more event
ReplayEvent(state, e) ==
    IF e.name = "key_change" THEN [state EXCEPT !.key = e.active]
    ELSE IF e.name = "switch_change" THEN [state EXCEPT !.switches[e.switch] = e.active]
    ELSE IF e.name = "encoder_change" THEN [state EXCEPT !.encoders[e.encoder_id] = e.value]
    ELSE [state EXCEPT !.encoders[e.encoder_id] = 0]

RECURSIVE Replay(_, _)
Replay(state, evs) ==
    IF evs = <<>> THEN state
    ELSE Replay(ReplayEvent(state, Head(evs)), Tail(evs))

\* the state the simulator stores
Stored(self) ==
    [key |-> self.key_active, switches |-> self.switches, encoders |-> self.encoders]

\* C30: in the simulator the stored state is the replay of the emitted
\* events: every operation leaves the state that its events give when
\* replayed on the state before it (key and switches true and counters 0
\* at first), and initial_state and /status return that state
C30_StoredStateIsReplayOfEvents ==
    [][ LET replayed == Replay(Stored(server), server'.emitted)
        IN  /\ Stored(server') = replayed
            /\ status(server').key = replayed.key
            /\ status(server').switches = replayed.switches
            /\ status(server').encoders = replayed.encoders
            /\ initial_state(server').key.active = replayed.key
            /\ \A color \in {"green", "blue", "red"} :
                  initial_state(server').switches[color].active = replayed.switches[color]
            /\ initial_state(server').encoders = replayed.encoders
            /\ server'.sent # server.sent => server'.sent = initial_state(server') ]_vars

\* a button press at counter 2 was emitted, with no encoder_change, and
\* the stored counter is 0
C30_Witness ==
    /\ server.emitted = <<[name |-> "encoder_button_press", encoder_id |-> 1]>>
    /\ call.button_pressed /\ call.counter_before = 2
    /\ server.encoders[1] = 0
    /\ status(server).encoders[1] = 0

====
